---- MODULE Spec2Model ----
(***************************************************************************)
(* Verification model of the vertical-chain cart-pole simulator and its    *)
(* PPO training loop (src/index.html).                                     *)
(*                                                                         *)
(* Numbers.  The program computes in IEEE floating point; simulator.state  *)
(* is a Float32Array.  The model computes in fixed point: an integer v     *)
(* stands for the real number v / FRAC with FRAC = 2^22.  2^-22 is the     *)
(* spacing of the float32 values in [2, 4), the binade that holds          *)
(* xThreshold = 2.4, so the model's grid IS the Float32Array grid where    *)
(* the cart bound is decided (below 2 the float32 grid is finer and the    *)
(* model rounds more coarsely than the program does).  NaN, Infinity and   *)
(* -Infinity are three reserved integers with IEEE-754 arithmetic.         *)
(***************************************************************************)
EXTENDS Integers, Sequences, FiniteSets

(***************************************************************************)
(* Fixed-point layer                                                       *)
(***************************************************************************)
FRAC == 2^22
HALF == 2^11

NaN == 2147483647
PosInf == 2147483646
NegInf == -PosInf

IsNaN(a) == a = NaN
IsInf(a) == a = PosInf \/ a = NegInf
IsFinite(a) == ~IsNaN(a) /\ ~IsInf(a)

Abs(a) == IF a < 0 THEN -a ELSE a
Sign(a) == IF a < 0 THEN -1 ELSE IF a > 0 THEN 1 ELSE 0
Min(a, b) == IF a <= b THEN a ELSE b

\* a / d rounded to the nearest integer (d > 0), halves away from zero.
RoundDiv(a, d) == IF a >= 0 THEN (a + d \div 2) \div d
                            ELSE -(((-a) + d \div 2) \div d)

\* Product of two finite fixed-point numbers, (a * b) / FRAC, computed in
\* 11-bit halves so that no intermediate exceeds 32 bits.
MulFix(a, b) ==
  LET x  == Abs(a)
      y  == Abs(b)
      xh == x \div HALF
      xl == x % HALF
      yh == y \div HALF
      yl == y % HALF
      m  == xh * yh + (xh * yl + xl * yh + (xl * yl) \div HALF + HALF \div 2) \div HALF
  IN  Sign(a) * Sign(b) * m

\* IEEE-754 negation, addition and multiplication.
FNeg(a) == IF IsNaN(a) THEN NaN ELSE -a

FAdd(a, b) ==
  IF IsNaN(a) \/ IsNaN(b) THEN NaN
  ELSE IF IsInf(a) THEN (IF b = -a THEN NaN ELSE a)
  ELSE IF IsInf(b) THEN b
  ELSE a + b

FSub(a, b) == FAdd(a, FNeg(b))

FMul(a, b) ==
  IF IsNaN(a) \/ IsNaN(b) THEN NaN
  ELSE IF IsInf(a) \/ IsInf(b)
       THEN (IF a = 0 \/ b = 0 THEN NaN
             ELSE IF Sign(a) * Sign(b) > 0 THEN PosInf ELSE NegInf)
  ELSE MulFix(a, b)

\* Multiplication by the positive rational constant num / den.
FScale(a, num, den) ==
  IF ~IsFinite(a) THEN a
  ELSE LET m == Abs(a)
       IN  Sign(a) * ((m \div den) * num + RoundDiv((m % den) * num, den))

\* IEEE-754 comparisons: every comparison with NaN is false.
FGt(a, b) == ~IsNaN(a) /\ ~IsNaN(b) /\ a > b
FGe(a, b) == ~IsNaN(a) /\ ~IsNaN(b) /\ a >= b

\* pi in fixed point (3.14159265 * 2^22), for the range reduction of sin/cos.
PI_FIX == 13176795

\* The angle x reduced to [-pi, pi).
Reduce(x) == ((x + PI_FIX) % (2 * PI_FIX)) - PI_FIX

\* Product of two non-negative fixed-point numbers (the Taylor terms).
MulPos(x, y) ==
  (x \div HALF) * (y \div HALF)
  + ((x \div HALF) * (y % HALF) + (x % HALF) * (y \div HALF)
     + ((x % HALF) * (y % HALF)) \div HALF + HALF \div 2) \div HALF

\* Taylor polynomials on [0, pi/2], as functions of y = r * r;
\* SinTerm gives sin(r) / r.  At y = 0 both are exactly 1.
SinTerm(y) ==
  FRAC - MulPos(y, FRAC - MulPos(y, FRAC - MulPos(y, FRAC - MulPos(y,
         FRAC - y \div 110) \div 72) \div 42) \div 20) \div 6

CosTerm(y) ==
  FRAC - MulPos(y, FRAC - MulPos(y, FRAC - MulPos(y, FRAC - MulPos(y,
         FRAC - y \div 90) \div 56) \div 30) \div 12) \div 2

\* <<Math.sin(x), Math.cos(x)>>: NaN for a non-finite argument.  The angle is
\* reduced to r in [-pi, pi) and folded to q in [0, pi/2].
SinCos(x) ==
  IF ~IsFinite(x) THEN <<NaN, NaN>>
  ELSE LET r    == Reduce(x)
           m    == Abs(r)
           fold == 2 * m > PI_FIX
           q    == IF fold THEN PI_FIX - m ELSE m
           y    == MulPos(q, q)
       IN  << Sign(r) * MulPos(q, SinTerm(y)),
              IF fold THEN -CosTerm(y) ELSE CosTerm(y) >>

Sin(x) == SinCos(x)[1]
Cos(x) == SinCos(x)[2]

(***************************************************************************)
(* Program constants (class VerticalChainSimulator, constructor)           *)
(***************************************************************************)
gravityTenths == 98          \* this.gravity = 9.8
dtMillis == 20               \* this.dt = 0.02 s, so this.dt * 1000 = 20
massCartTenths == 10         \* this.massCart = 1.0
massPoleTenths == 1          \* this.massPole = 0.1
L == 1                       \* this.L = 1.0
xThresholdTenths == 24       \* this.xThreshold = 2.4
scale == 100                 \* this.scale = 100 pixels per metre
canvasHeight == 600          \* <canvas height="600">
groundMargin == 10           \* tip.y >= this.groundY - 10

\* Scalars of the integrator as rationals <<numerator, denominator>>.
dt == <<dtMillis, 1000>>
dtHalf == <<dtMillis, 2000>>
dtSixth == <<dtMillis, 6000>>
two == <<2, 1>>

\* Pixel coordinates are kept with 16 fractional bits.
PXFRAC == 2^16
ToPx(v) == FScale(v, 1, FRAC \div PXFRAC)
cartHeight == (4 * scale * PXFRAC) \div 10          \* 0.4 * this.scale
groundY == (canvasHeight - 100) * PXFRAC            \* canvas.height - 100

\* The largest grid value not above xThreshold: 2.4 * 2^22 = 10066329.6 is
\* no grid value, so for a grid value x, x > 2.4 iff x > XThr.
XThr == (xThresholdTenths * FRAC) \div 10

(***************************************************************************)
(* Utility vector functions.  JS index k is TLA+ index k + 1.              *)
(***************************************************************************)
\* Vec(f) is the sequence f as an explicit tuple of values (every element is
\* computed once, when the vector is built).
Vec(f) == SubSeq(f, 1, Len(f))

\* The spacing of the float32 values around magnitude m, in grid units: 1 below
\* 4.0 (where float32 is at least as fine as the grid), doubling per binade.
RECURSIVE Float32Ulp(_)
Float32Ulp(m) == IF m < 4 * FRAC THEN 1 ELSE 2 * Float32Ulp(m \div 2)

\* Storing a number into a Float32Array: round to the nearest float32, ties
\* to the even one.
ToFloat32(v) ==
  IF ~IsFinite(v) THEN v
  ELSE LET m == Abs(v)
           u == Float32Ulp(m)
           q == m \div u
           r == m % u
           k == IF 2 * r > u \/ (2 * r = u /\ q % 2 = 1) THEN q + 1 ELSE q
       IN  Sign(v) * k * u

\* Array.prototype.map on a Float32Array yields a Float32Array.
vectorAdd(v1, v2) == Vec([i \in 1..Len(v1) |-> ToFloat32(FAdd(v1[i], v2[i]))])

vectorScale(v, scalar) ==
  Vec([i \in 1..Len(v) |-> ToFloat32(FScale(v[i], scalar[1], scalar[2]))])

RECURSIVE vectorAddFrom(_, _, _)
vectorAddFrom(result, vectors, i) ==
  IF i > Len(vectors) THEN result
  ELSE vectorAddFrom(vectorAdd(result, vectors[i]), vectors, i + 1)

vectorAddMultiple(vectors) == vectorAddFrom(vectors[1], vectors, 2)

(***************************************************************************)
(* VerticalChainSimulator                                                  *)
(***************************************************************************)
\* new Float32Array(2 + 2 * numPoles): all zero.
newState(numPoles) == Vec([i \in 1..(2 + 2 * numPoles) |-> 0])

\* Mutant of reset: the cart is left where it is.
reset_keepCart(st, numPoles, jitter) ==
  Vec([k \in 1..Len(st) |->
     IF k <= 2 THEN st[k]
     ELSE IF (k - 3) \div 2 < numPoles
          THEN jitter[(k - 3) \div 2 + 1][((k - 3) % 2) + 1]
          ELSE st[k]])

\* reset(): cart at rest at 0; pole i gets the two draws jitter[i].
\* A draw is (Math.random() - 0.5) * 0.05, a value in [-0.025, 0.025).
reset(st, numPoles, jitter) ==
  Vec([k \in 1..Len(st) |->
     IF k <= 2 THEN 0
     ELSE IF (k - 3) \div 2 < numPoles
          THEN jitter[(k - 3) \div 2 + 1][((k - 3) % 2) + 1]
          ELSE st[k]])

\* The y coordinate (canvas pixels) of every pole tip, first pole first.
\* (tip.x is computed too; only the renderer reads it.)
RECURSIVE tipsFrom(_, _, _, _)
tipsFrom(st, numPoles, i, baseY) ==
  IF i >= numPoles THEN <<>>
  ELSE LET theta == st[3 + 2 * i]
           endY  == FSub(baseY, ToPx(FScale(Cos(theta), L * scale, 1)))
       IN  <<endY>> \o tipsFrom(st, numPoles, i + 1, endY)

getPoleTipCoordinates(st, numPoles) ==
  tipsFrom(st, numPoles, 0, groundY - cartHeight)

\* Mutant of computeDerivatives: sine and cosine exchanged.
computeDerivatives_swapped(st, numPoles, force) ==
  LET totalMass == massCartTenths + numPoles * massPoleTenths
      a_cart    == FScale(force, 10, totalMass)
      gOverL    == FScale(FRAC, gravityTenths, 10 * L)
      aOverL    == FScale(a_cart, 1, L)
  IN  Vec([k \in 1..Len(st) |->
         IF k = 1 THEN st[2]
         ELSE IF k = 2 THEN ToFloat32(a_cart)
         ELSE IF (k - 3) \div 2 >= numPoles THEN 0
         ELSE IF (k - 3) % 2 = 0 THEN st[k + 1]
         ELSE LET sc == SinCos(st[k - 1])
              IN  ToFloat32(FSub(FNeg(FMul(gOverL, sc[2])), FMul(aOverL, sc[1])))])

computeDerivatives(st, numPoles, force) ==
  LET totalMass == massCartTenths + numPoles * massPoleTenths   \* in tenths
      a_cart    == FScale(force, 10, totalMass)
      gOverL    == FScale(FRAC, gravityTenths, 10 * L)
      aOverL    == FScale(a_cart, 1, L)
  IN  Vec([k \in 1..Len(st) |->
         IF k = 1 THEN st[2]
         ELSE IF k = 2 THEN ToFloat32(a_cart)
         ELSE IF (k - 3) \div 2 >= numPoles THEN 0
         ELSE IF (k - 3) % 2 = 0 THEN st[k + 1]
         ELSE LET sc == SinCos(st[k - 1])
              IN  ToFloat32(FSub(FNeg(FMul(gOverL, sc[1])), FMul(aOverL, sc[2])))])

rk4Step(st, numPoles, force) ==
  LET k1   == computeDerivatives(st, numPoles, force)
      s2   == vectorAdd(st, vectorScale(k1, dtHalf))
      k2   == computeDerivatives(s2, numPoles, force)
      s3   == vectorAdd(st, vectorScale(k2, dtHalf))
      k3   == computeDerivatives(s3, numPoles, force)
      s4   == vectorAdd(st, vectorScale(k3, dt))
      k4   == computeDerivatives(s4, numPoles, force)
      incr == vectorScale(
                vectorAddMultiple(<<k1, vectorScale(k2, two), vectorScale(k3, two), k4>>),
                dtSixth)
  IN  vectorAdd(st, incr)

isTerminal(st, numPoles) ==
  \/ FGt(Abs(st[1]), XThr)
  \/ LET tips == getPoleTipCoordinates(st, numPoles)
     IN  \E i \in 1..Len(tips) : FGe(tips[i], groundY - groundMargin * PXFRAC)

\* update(force, elapsedTime): the state reached, the number n of RK4 steps
\* performed, and firstTerminal, the number of the first performed step whose
\* result isTerminal() (0 when there is none).  The loop of the source is
\* updateFrom; i counts the steps already performed.
RECURSIVE updateFrom(_, _, _, _, _)

\* Mutant of afterStep: no break, the loop runs all its steps.
afterStep_noBreak(s1, numPoles, force, i, steps) ==
  IF isTerminal(s1, numPoles)
  THEN [updateFrom(s1, numPoles, force, i + 1, steps) EXCEPT !.firstTerminal = i + 1]
  ELSE updateFrom(s1, numPoles, force, i + 1, steps)

\* The rest of one iteration, s1 being the result of its rk4Step.
afterStep(s1, numPoles, force, i, steps) ==
  IF isTerminal(s1, numPoles)
  THEN [state |-> s1, n |-> i + 1, firstTerminal |-> i + 1]              \* break
  ELSE updateFrom(s1, numPoles, force, i + 1, steps)

updateFrom(st, numPoles, force, i, steps) ==
  IF i >= steps THEN [state |-> st, n |-> i, firstTerminal |-> 0]
  ELSE afterStep(rk4Step(st, numPoles, force), numPoles, force, i, steps)

update(st, numPoles, force, elapsedTime) ==
  updateFrom(st, numPoles, force, 0, elapsedTime \div dtMillis)

(***************************************************************************)
(* PPOAgent.computeGAE                                                     *)
(***************************************************************************)
gammaPercent == 99           \* this.gamma = 0.99
lamPercent == 95             \* this.lam = 0.95

\* c * a for the JavaScript number c = (num / den) * nonTerminal, with
\* nonTerminal 0 or 1: 0 * NaN and 0 * Infinity are NaN.
FScaleFlag(a, num, den, nonTerminal) ==
  IF nonTerminal = 1 THEN FScale(a, num, den)
  ELSE IF IsFinite(a) THEN 0 ELSE NaN

\* The backward loop: t runs from rewards.length - 1 down to 0 (here from
\* Len(rewards) down to 1); adv holds adv[t+1 ..].  rewards are plain numbers
\* (1 per tick), values are fixed point, dones are 0 or 1.
RECURSIVE gaeFrom(_, _, _, _, _, _)
gaeFrom(rewards, values, dones, t, lastgaelam, adv) ==
  IF t < 1 THEN adv
  ELSE LET nextValue       == IF t = Len(rewards) THEN 0 ELSE values[t + 1]
           nextNonTerminal == IF dones[t] # 0 THEN 0 ELSE 1
           delta == FSub(FAdd(rewards[t] * FRAC,
                              FScaleFlag(nextValue, gammaPercent, 100, nextNonTerminal)),
                         values[t])
           gl    == FAdd(delta,
                         FScaleFlag(lastgaelam, gammaPercent * lamPercent, 100 * 100,
                                    nextNonTerminal))
       IN  gaeFrom(rewards, values, dones, t - 1, gl, <<gl>> \o adv)

RECURSIVE SumSeq(_)
SumSeq(sq) == IF sq = <<>> THEN 0 ELSE sq[1] + SumSeq(SubSeq(sq, 2, Len(sq)))

\* Mutant of computeGAE: the mean of the advantages is subtracted from them.
computeGAE_centered(rewards, values, dones) ==
  LET adv     == gaeFrom(rewards, values, dones, Len(rewards), 0, <<>>)
      mean    == IF adv = <<>> THEN 0 ELSE RoundDiv(SumSeq(adv), Len(adv))
  IN  [advantages |-> Vec([i \in 1..Len(adv) |-> ToFloat32(adv[i] - mean)]),
       returns    |-> Vec([i \in 1..Len(adv) |-> ToFloat32(FAdd(adv[i], values[i]))])]

\* computeGAE(rewards, values, dones).  The source also computes the mean and
\* the standard deviation of adv and uses neither.
computeGAE(rewards, values, dones) ==
  LET adv     == gaeFrom(rewards, values, dones, Len(rewards), 0, <<>>)
      returns == [idx \in 1..Len(adv) |-> FAdd(adv[idx], values[idx])]
  IN  [advantages |-> Vec([i \in 1..Len(adv) |-> ToFloat32(adv[i])]),      \* Float32Array.from
       returns    |-> Vec([i \in 1..Len(adv) |-> ToFloat32(returns[i])])]

(***************************************************************************)
(* Bounds and inputs of the model                                          *)
(***************************************************************************)
MaxEvents == 3               \* setInterval callbacks and configuration clicks in a behaviour

\* <select id="numPolesSelect">: options 1, 2, 3; 3 is selected on load.
PoleCounts == {1, 2, 3}
defaultPoles == 3

\* The draws of reset(): (Math.random() - 0.5) * 0.05 stored as float32.  Two
\* outcomes are followed: every draw in the middle of its range, and the draws
\* at the two ends of the range, alternating.
jitterLo == -RoundDiv(25 * FRAC, 1000)
jitterHi == RoundDiv(25 * FRAC, 1000)
Jitters(numPoles) ==
  { [i \in 1..numPoles |-> <<0, 0>>],
    [i \in 1..numPoles |-> IF i % 2 = 1 THEN <<jitterHi, jitterLo>>
                                         ELSE <<jitterLo, jitterHi>>] }

\* What agent.getAction(state) can return: the networks and the Gaussian noise
\* are not modelled, their outputs are chosen freely among these.  The last
\* two are outputs of diverged parameters.
outPush  == [force |-> 50 * FRAC, logProb |-> -(FRAC \div 2), value |-> 0]
outIdle  == [force |-> 0,         logProb |-> -FRAC,          value |-> FRAC \div 2]
outNaN   == [force |-> NaN,       logProb |-> NaN,            value |-> NaN]
outInf   == [force |-> PosInf,    logProb |-> -(FRAC \div 2), value |-> 0]

\* The callbacks followed: what getAction returns and the time in ms since the
\* previous callback (19: no RK4 step, 20: one, 400: twenty).
TickInputs ==
  { [out |-> outIdle, elapsed |-> 19],
    [out |-> outPush, elapsed |-> 20],
    [out |-> outPush, elapsed |-> 400],
    [out |-> outNaN,  elapsed |-> 20],
    [out |-> outInf,  elapsed |-> 20] }

(***************************************************************************)
(* Global state of the page (src/index.html, 446-457 and 485)              *)
(***************************************************************************)
VARIABLES
  state,               \* simulator.state
  numPoles,            \* simulator.numPoles
  agent,               \* the PPOAgent instance: [id, obs_dim]
  obs_dim,
  bufferObservations, bufferActions, bufferRewards,
  bufferDones, bufferLogProbs, bufferValues,
  lastSimTime,
  \* history variables, read by the properties only
  bufferEpoch,         \* for each buffered transition, the value of clears when it was pushed
  clears,              \* how many times the buffers have been emptied
  events,               \* events so far: setInterval callbacks and configuration clicks
  ticksSinceClear,     \* callbacks run since the buffers were last emptied
  last,                \* what the latest callback or initSimulation did
  probe,               \* input and result of a function evaluated on its own
  updates,             \* the calls of agent.update that have not settled, oldest first
  tfMemory,            \* the tensors made for updates: [live, misuse]
  updateLog,           \* calls of agent.update: [started, fulfilled, rejected]
  simLog,              \* RK4 steps, summed over the callbacks: [requested, performed,
                       \* gaps], gaps being the sum of floor(gap / 20) over the times
                       \* between successive callbacks
  clock,               \* performance.now() of the latest callback (0 at load)
  demo                 \* the globals of src/script.js, a page of its own

buffers == <<bufferObservations, bufferActions, bufferRewards,
             bufferDones, bufferLogProbs, bufferValues>>
asyncVars == <<updates, tfMemory, updateLog>>
\* Everything but probe.
indexVars == <<state, numPoles, agent, obs_dim, buffers, lastSimTime,
               bufferEpoch, clears, events, ticksSinceClear, last, asyncVars, simLog,
               clock>>
pageVars == <<indexVars, demo>>
vars == <<pageVars, probe>>

action_dim == 1

\* The six buffers (and the history tag) as one record.
bufs == [observations |-> bufferObservations, actions |-> bufferActions,
         rewards |-> bufferRewards, dones |-> bufferDones,
         logProbs |-> bufferLogProbs, values |-> bufferValues,
         epoch |-> bufferEpoch]

\* Mutants of clearBuffers: nothing is emptied; bufferDones is forgotten.
clearBuffers_keepAll(b) == b
clearBuffers_keepDones(b) ==
  [observations |-> <<>>, actions |-> <<>>, rewards |-> <<>>, dones |-> b.dones,
   logProbs |-> <<>>, values |-> <<>>, epoch |-> <<>>]

\* bufferX = [] for the six buffers.
clearBuffers(b) ==
  [observations |-> <<>>, actions |-> <<>>, rewards |-> <<>>, dones |-> <<>>,
   logProbs |-> <<>>, values |-> <<>>, epoch |-> <<>>]

\* Mutants of pushTransition: a callback whose update performed no step (the
\* observation is the one pushed last) records nothing; nothing is recorded
\* before the episode-end test.
pushTransition_skipIdle(b, t) ==
  IF Len(b.observations) > 0 /\ b.observations[Len(b.observations)] = t.state
  THEN b
  ELSE [observations |-> Append(b.observations, t.state),
        actions      |-> Append(b.actions, <<t.force>>),
        rewards      |-> Append(b.rewards, t.reward),
        dones        |-> Append(b.dones, t.done),
        logProbs     |-> Append(b.logProbs, t.logProb),
        values       |-> Append(b.values, t.value),
        epoch        |-> Append(b.epoch, t.epoch)]
pushTransition_late(b, t) == b

\* bufferX.push(...) for the six buffers.
pushTransition(b, t) ==
  [observations |-> Append(b.observations, t.state),
   actions      |-> Append(b.actions, <<t.force>>),
   rewards      |-> Append(b.rewards, t.reward),
   dones        |-> Append(b.dones, t.done),
   logProbs     |-> Append(b.logProbs, t.logProb),
   values       |-> Append(b.values, t.value),
   epoch        |-> Append(b.epoch, t.epoch)]

SetBuffers(b) ==
  /\ bufferObservations' = b.observations
  /\ bufferActions' = b.actions
  /\ bufferRewards' = b.rewards
  /\ bufferDones' = b.dones
  /\ bufferLogProbs' = b.logProbs
  /\ bufferValues' = b.values
  /\ bufferEpoch' = b.epoch

noBatch == [observations |-> <<>>, actions |-> <<>>, rewards |-> <<>>, dones |-> <<>>,
            logProbs |-> <<>>, values |-> <<>>, epoch |-> <<>>]
noGae == [advantages |-> <<>>, returns |-> <<>>]

\* Mutant of initSimulation: the buffers are not emptied.
initSimulation_keepBuffers(n, jitter, oldAgent, b) ==
  [state    |-> reset(newState(n), n, jitter),
   numPoles |-> n,
   obs_dim  |-> 2 + 2 * n,
   agent    |-> [id |-> oldAgent.id + 1, obs_dim |-> 2 + 2 * n],
   bufs     |-> b]

\* initSimulation() with numPolesSelect.value = n: the new simulator (its state
\* reset with the draws jitter), obs_dim, a new agent, and the emptied buffers.
initSimulation(n, jitter, oldAgent, b) ==
  [state    |-> reset(newState(n), n, jitter),
   numPoles |-> n,
   obs_dim  |-> 2 + 2 * n,
   agent    |-> [id |-> oldAgent.id + 1, obs_dim |-> 2 + 2 * n],
   bufs     |-> clearBuffers(b)]

(***************************************************************************)
(* agent.update as a process (src/index.html, 391-419 and 516-525)         *)
(*                                                                         *)
(* update is an async function: it runs inside the callback that calls it  *)
(* up to its first await, and each later piece runs as a microtask.  What  *)
(* it awaits is the value optimizer.minimize returned, which is not a      *)
(* pending promise, so the continuation is queued at once.  A call that    *)
(* has not settled is a record                                             *)
(*   pc           "awaitActor", "awaitCritic": suspended at that await;    *)
(*                "then": returned, the .then callback is queued           *)
(*   epoch, i     the loop variables                                       *)
(*   datasetSize  observations.shape[0]                                    *)
(*   steps        optimizer steps made so far                              *)
(*   ep, mb       the five tensors of the episode and the six of the       *)
(*                current minibatch: "live" or "disposed"                  *)
(* Which indices a minibatch holds does not matter here (see batchIndices).*)
(***************************************************************************)
epochsDefault == 10          \* epochs = 10
batchSizeDefault == 64       \* batchSize = 64
episodeTensors == 5          \* obsTensor, actTensor, advTensor, retTensor, logpOldTensor
minibatchTensors == 6        \* batchIndicesTensor, obsBatch, actBatch, advBatch, retBatch, logpOldBatch

\* What a call of optimizer.minimize can do: return, or throw.
MinimizeReturns == {"ok"}
MinimizeOutcomes == {"ok", "throw"}

\* Mutants of CanRunTask: a continuation after an await is run as a task of
\* its own, so other tasks may come first; only the .then callback comes
\* before the next task.
CanRunTask_awaitIsTask(u) == TRUE
CanRunTask_thenOnly(u) == \A k \in 1..Len(u) : u[k].pc # "then"

\* The event loop starts a task (an interval callback, a click handler) only
\* when no microtask is queued; every call in u has one queued.
CanRunTask(u) == u = <<>>

\* n tensors made, n tensors disposed; a use or a second dispose of disposed
\* tensors is remembered in misuse.
tfCreate(m, n) == [m EXCEPT !.live = @ + n]
tfDispose(m, n, was) ==
  IF was = "live" THEN [m EXCEPT !.live = @ - n] ELSE [m EXCEPT !.misuse = TRUE]
tfUse(m, was) == IF was = "live" THEN m ELSE [m EXCEPT !.misuse = TRUE]

\* The top of a minibatch iteration (395-405) for loop variables epoch, i: the
\* six tensors are made and actorOptimizer.minimize is called, then update
\* awaits.  Gives the call (none if minimize threw: the promise is
\* rejected), the tensors and the log.
startMinibatch(p, epoch, i, m, log, outcome) ==
  LET m1 == tfUse(tfCreate(m, minibatchTensors), "live")
  IN  IF outcome = "ok"
      THEN [procs |-> <<[p EXCEPT !.pc = "awaitActor", !.epoch = epoch, !.i = i,
                                  !.steps = @ + 1, !.mb = "live"]>>,
            mem |-> m1, log |-> log]
      ELSE [procs |-> <<>>, mem |-> m1, log |-> [log EXCEPT !.rejected = @ + 1]]

\* agent.update(obsTensor, ...) as far as it runs inside the caller (391-405),
\* after the caller has made the five tensors of the episode (512-516).
startUpdate(T, m, log, outcome) ==
  startMinibatch([pc |-> "start", epoch |-> 0, i |-> 0, datasetSize |-> T,
                  steps |-> 0, ep |-> "live", mb |-> "none"],
                 0, 0, tfCreate(m, episodeTensors),
                 [log EXCEPT !.started = @ + 1], outcome)

\* The end of a minibatch iteration (411-416) and the loop heads (394-395):
\* the six tensors are disposed; then the next minibatch, the next epoch, or
\* the return of update, which queues the .then callback.
afterCritic(p, m, log, outcome) ==
  LET m1 == tfDispose(m, minibatchTensors, p.mb)
      p1 == [p EXCEPT !.mb = "disposed"]
  IN  IF p.i + batchSizeDefault < p.datasetSize
      THEN startMinibatch(p1, p.epoch, p.i + batchSizeDefault, m1, log, outcome)
      ELSE IF p.epoch + 1 < epochsDefault
      THEN startMinibatch(p1, p.epoch + 1, 0, m1, log, outcome)
      ELSE [procs |-> <<[p1 EXCEPT !.pc = "then", !.epoch = p.epoch + 1]>>,
            mem |-> m1, log |-> log]

\* One microtask of the call p.
resume(p, m, log, outcome) ==
  IF p.pc = "awaitActor"
  THEN \* 407-410: criticOptimizer.minimize, then update awaits
       IF outcome = "ok"
       THEN [procs |-> <<[p EXCEPT !.pc = "awaitCritic", !.steps = @ + 1]>>,
             mem |-> tfUse(m, p.mb), log |-> log]
       ELSE [procs |-> <<>>, mem |-> tfUse(m, p.mb),
             log |-> [log EXCEPT !.rejected = @ + 1]]
  ELSE IF p.pc = "awaitCritic"
  THEN afterCritic(p, m, log, outcome)
  ELSE \* 518-524: the .then callback disposes the five tensors of the episode
       [procs |-> <<>>, mem |-> tfDispose(m, episodeTensors, p.ep),
        log |-> [log EXCEPT !.fulfilled = @ + 1]]

noProbe == [kind |-> "none"]

\* index.html after load with the simulator and agent of configuration c.
LoadedIndex(c) ==
  /\ state = c.state
  /\ numPoles = c.numPoles
  /\ obs_dim = c.obs_dim
  /\ agent = c.agent
  /\ bufferObservations = <<>> /\ bufferActions = <<>> /\ bufferRewards = <<>>
  /\ bufferDones = <<>> /\ bufferLogProbs = <<>> /\ bufferValues = <<>>
  /\ bufferEpoch = <<>>
  /\ lastSimTime = 0
  /\ clears = 0 /\ events = 0 /\ ticksSinceClear = 0
  /\ last = [kind |-> "init", requested |-> c.numPoles, elapsed |-> 0, force |-> 0,
             pre |-> c.state, post |-> c.state, steps |-> 0, firstTerminal |-> 0,
             done |-> 0, dispatched |-> FALSE, batch |-> noBatch, gae |-> noGae,
             nTicks |-> 0, agent |-> 0, clearsBefore |-> 0, pendingAtStart |-> 0,
             atReturn |-> "none"]
  /\ updates = <<>>
  /\ tfMemory = [live |-> 0, misuse |-> FALSE]
  /\ updateLog = [started |-> 0, fulfilled |-> 0, rejected |-> 0]
  /\ simLog = [requested |-> 0, performed |-> 0, gaps |-> 0]
  /\ clock = 0

\* The page after load; index.html does not load script.js.
Loaded(c) ==
  /\ LoadedIndex(c)
  /\ demo = [page |-> "closed"]

\* Page load: initSimulation() with the option selected by default.
Init ==
  /\ \E jitter \in Jitters(defaultPoles) :
       Loaded(initSimulation(defaultPoles, jitter, [id |-> 0, obs_dim |-> 0], noBatch))
  /\ probe = noProbe

\* Click on "Apply Configuration" with n selected.
ApplyConfigWith(n) ==
  /\ events < MaxEvents
  /\ CanRunTask(updates)
  /\ \E jitter \in Jitters(n) :
     \E c \in {initSimulation(n, jitter, agent, bufs)} :
       /\ state' = c.state
       /\ numPoles' = c.numPoles
       /\ obs_dim' = c.obs_dim
       /\ agent' = c.agent
       /\ SetBuffers(c.bufs)
       /\ clears' = clears + 1
       /\ events' = events + 1
       /\ ticksSinceClear' = 0
       /\ last' = [kind |-> "config", requested |-> n, elapsed |-> 0, force |-> 0,
                   pre |-> state, post |-> c.state, steps |-> 0, firstTerminal |-> 0,
                   done |-> 0, dispatched |-> FALSE, batch |-> noBatch, gae |-> noGae,
                   nTicks |-> 0, agent |-> agent.id, clearsBefore |-> clears,
                   pendingAtStart |-> Len(updates), atReturn |-> "none"]
       /\ UNCHANGED <<lastSimTime, probe, asyncVars, simLog, clock, demo>>

ApplyConfig == \E n \in PoleCounts : ApplyConfigWith(n)

\* The end of a callback that found done = 1: the batch is submitted (what.batch,
\* what.gae), the six buffers are emptied and the simulator is reset.
EpisodeEnd(pushed, post, what, outcome) ==
  /\ IF Len(pushed.observations) > 0
     THEN \E u \in {startUpdate(Len(pushed.observations), tfMemory, updateLog, outcome)} :
            /\ updates' = updates \o u.procs
            /\ tfMemory' = u.mem
            /\ updateLog' = u.log
            /\ last' = [what EXCEPT
                          !.dispatched = TRUE,
                          !.batch = pushed,
                          !.gae = computeGAE(pushed.rewards, pushed.values, pushed.dones),
                          !.atReturn = IF u.procs = <<>> THEN "rejected"
                                       ELSE u.procs[1].pc]
     ELSE /\ UNCHANGED asyncVars
          /\ last' = what
  /\ SetBuffers(clearBuffers(pushed))
  /\ clears' = clears + 1
  /\ ticksSinceClear' = 0
  /\ \E jitter \in Jitters(numPoles) : state' = reset(post, numPoles, jitter)

\* Mutant of nextLastSimTime: only the time of the steps requested is used up,
\* the rest is left for the next callback.
nextLastSimTime_carry(now, last0, elapsed) == last0 + (elapsed \div dtMillis) * dtMillis

\* lastSimTime = now, with elapsed = now - lastSimTime computed before.
nextLastSimTime(now, last0, elapsed) == now

\* The callback after simulator.update has returned r and isTerminal() done.
AfterUpdate(out, now, elapsed, r, done, outcome) ==
  /\ lastSimTime' = nextLastSimTime(now, lastSimTime, elapsed)
  /\ clock' = now
  /\ events' = events + 1
  /\ simLog' = [requested |-> simLog.requested + elapsed \div dtMillis,
                performed |-> simLog.performed + r.n,
                gaps      |-> simLog.gaps + (now - clock) \div dtMillis]
  /\ UNCHANGED <<numPoles, agent, obs_dim, probe, demo>>
  /\ \E pushed \in {pushTransition(bufs, [state |-> state, force |-> out.force,
                                         reward |-> 1, done |-> done,
                                         logProb |-> out.logProb, value |-> out.value,
                                         epoch |-> clears])} :
     \E what \in {[kind |-> "tick", requested |-> numPoles,
                   elapsed |-> elapsed, force |-> out.force,
                   pre |-> state, post |-> r.state, steps |-> r.n,
                   firstTerminal |-> r.firstTerminal, done |-> done,
                   dispatched |-> FALSE, batch |-> noBatch, gae |-> noGae,
                   nTicks |-> ticksSinceClear + 1, agent |-> agent.id,
                   clearsBefore |-> clears, pendingAtStart |-> Len(updates),
                   atReturn |-> "none"]} :
       IF done = 1
       THEN EpisodeEnd(pushed, r.state, what, outcome)
       ELSE /\ last' = what
            /\ SetBuffers(pushed)
            /\ state' = r.state
            /\ ticksSinceClear' = ticksSinceClear + 1
            /\ UNCHANGED <<clears, asyncVars>>

\* One setInterval callback; out is what agent.getAction(state) returns, elapsed
\* is performance.now() - lastSimTime.
\* gap is the time since the previous callback (since load for the first);
\* outcome is what the first actorOptimizer.minimize does if the episode ends.
TickWith(out, gap, outcome) ==
  \E now \in {clock + gap} :
  \E elapsed \in {now - lastSimTime} :
  \E r \in {update(state, numPoles, out.force, elapsed)} :
    \E done \in {IF isTerminal(r.state, numPoles) THEN 1 ELSE 0} :
      AfterUpdate(out, now, elapsed, r, done, outcome)

TickFrom(inputs, outcomes) ==
  /\ events < MaxEvents
  /\ CanRunTask(updates)
  /\ \E in \in inputs : \E outcome \in outcomes : TickWith(in.out, in.elapsed, outcome)

Tick == TickFrom(TickInputs, MinimizeReturns)

\* One microtask: the continuation of a call of update, or its .then callback.
MicrotaskWith(outcomes) ==
  \E k \in 1..Len(updates) : \E outcome \in outcomes :
    \E u \in {resume(updates[k], tfMemory, updateLog, outcome)} :
      /\ updates' = SubSeq(updates, 1, k - 1) \o u.procs \o SubSeq(updates, k + 1, Len(updates))
      /\ tfMemory' = u.mem
      /\ updateLog' = u.log
      /\ UNCHANGED <<state, numPoles, agent, obs_dim, buffers, lastSimTime,
                     bufferEpoch, clears, events, ticksSinceClear, last, simLog,
                     clock, probe, demo>>

Microtask == MicrotaskWith(MinimizeReturns)

Next == Tick \/ ApplyConfig \/ Microtask

Spec == Init /\ [][Next]_vars

(***************************************************************************)
(* Properties of the training loop (specification Spec)                    *)
(***************************************************************************)
IsTick == last.kind = "tick"
EpisodeEnded == IsTick /\ last.done = 1
AllBuffersEmpty ==
  /\ bufferObservations = <<>> /\ bufferActions = <<>> /\ bufferRewards = <<>>
  /\ bufferDones = <<>> /\ bufferLogProbs = <<>> /\ bufferValues = <<>>

\* C1: the live buffer holds only transitions pushed since the buffers were
\* last emptied; a callback empties the buffers exactly when it detects
\* termination (once, in that same callback), and the batch it submits holds
\* only transitions pushed since the previous emptying.
C1_BufferLifecycle ==
  /\ \A i \in 1..Len(bufferEpoch) : bufferEpoch[i] = clears
  /\ Len(bufferObservations) = Len(bufferEpoch)
  /\ IsTick => clears = last.clearsBefore + last.done
  /\ EpisodeEnded =>
       /\ AllBuffersEmpty
       /\ \A i \in 1..Len(last.batch.epoch) : last.batch.epoch[i] = last.clearsBefore

\* C1 witness: an episode of two callbacks has just been submitted after an
\* earlier episode was completed.
C1_Witness ==
  /\ EpisodeEnded /\ last.dispatched
  /\ last.clearsBefore >= 1
  /\ Len(last.batch.epoch) = 2

\* C2: in a submitted batch done is 1 for the last transition and 0 for every
\* earlier one, and between callbacks bufferDones holds no 1.
C2_DoneOnlyLast ==
  /\ \A i \in 1..Len(bufferDones) : bufferDones[i] = 0
  /\ (IsTick /\ last.dispatched) =>
       LET d == last.batch.dones
       IN  /\ Len(d) >= 1
           /\ d[Len(d)] = 1
           /\ \A i \in 1..(Len(d) - 1) : d[i] = 0

\* C2 witness: a batch of at least two transitions has been submitted.
C2_Witness == IsTick /\ last.dispatched /\ Len(last.batch.dones) >= 2

\* C3: the six buffers have one length, the number of callbacks run since
\* they were last emptied, every reward is 1, and a submitted batch has one
\* transition per callback of its episode.
C3_OneTransitionPerTick ==
  /\ Len(bufferObservations) = ticksSinceClear
  /\ Len(bufferActions) = ticksSinceClear
  /\ Len(bufferRewards) = ticksSinceClear
  /\ Len(bufferDones) = ticksSinceClear
  /\ Len(bufferLogProbs) = ticksSinceClear
  /\ Len(bufferValues) = ticksSinceClear
  /\ \A i \in 1..Len(bufferRewards) : bufferRewards[i] = 1
  /\ (IsTick /\ last.dispatched) =>
       /\ Len(last.batch.observations) = last.nTicks
       /\ Len(last.batch.actions) = last.nTicks
       /\ Len(last.batch.rewards) = last.nTicks
       /\ Len(last.batch.dones) = last.nTicks
       /\ Len(last.batch.logProbs) = last.nTicks
       /\ Len(last.batch.values) = last.nTicks
       /\ \A i \in 1..Len(last.batch.rewards) : last.batch.rewards[i] = 1

\* C3 witness: a callback with less than 20 ms elapsed (no RK4 step) has
\* recorded the second transition of an episode.
C3_Witness ==
  /\ IsTick /\ last.elapsed < dtMillis /\ last.steps = 0
  /\ Len(bufferRewards) = 2

\* C4 as claimed: update performs exactly floor(elapsedMillis / 20) RK4 steps.
C4_ExactlyFloorSteps == IsTick => last.steps = last.elapsed \div dtMillis

\* C4 amended: update performs floor(elapsedMillis / 20) RK4 steps unless the
\* result of an earlier step is terminal; it stops after the first such step.
C4_StepsUntilTerminal ==
  IsTick =>
    /\ last.steps <= last.elapsed \div dtMillis
    /\ last.firstTerminal = 0 => last.steps = last.elapsed \div dtMillis
    /\ last.firstTerminal # 0 =>
         /\ last.steps = last.firstTerminal
         /\ isTerminal(last.post, numPoles)

\* C4 witness: a call that stopped at a terminal state before its last step.
C4_Witness ==
  /\ IsTick /\ last.steps >= 2
  /\ last.steps < last.elapsed \div dtMillis
  /\ IsFinite(last.post[1])

\* C6 as claimed: a state with a non-finite component after the advance ends
\* the episode (done is 1), no update is submitted for it, and the simulator
\* is reset.
NonFinite(st) == \E i \in 1..Len(st) : ~IsFinite(st[i])
IsResetState(st) ==
  /\ st[1] = 0 /\ st[2] = 0
  /\ \A i \in 3..Len(st) : st[i] >= jitterLo /\ st[i] <= jitterHi
C6_DivergenceEndsEpisode ==
  (IsTick /\ NonFinite(last.post)) =>
    /\ last.done = 1
    /\ ~last.dispatched
    /\ IsResetState(state)

\* C6: the state in which the claim fails: after a callback whose action was
\* NaN every component of the state is NaN, isTerminal() is false, done is 0,
\* the transition stays buffered and the simulator keeps the NaN state.
C6_NaNStateKept ==
  /\ IsTick /\ last.steps = 1
  /\ \A i \in 1..Len(last.post) : IsNaN(last.post[i])
  /\ last.done = 0
  /\ state = last.post
  /\ Len(bufferDones) = ticksSinceClear /\ ticksSinceClear >= 1

\* C8: the state vector, obs_dim and the agent's input size are 2 + 2N, every
\* buffered observation has that length, no callback changes the length, and
\* initSimulation installs a new agent and empties the six buffers.
C8_Dimensions ==
  /\ Len(state) = 2 + 2 * numPoles
  /\ obs_dim = 2 + 2 * numPoles
  /\ agent.obs_dim = obs_dim
  /\ \A i \in 1..Len(bufferObservations) : Len(bufferObservations[i]) = obs_dim
  /\ IsTick => Len(last.post) = Len(last.pre) /\ Len(last.pre) = obs_dim
  /\ last.kind = "config" =>
       /\ numPoles = last.requested
       /\ agent.id = last.agent + 1
       /\ AllBuffersEmpty

\* C8 witness: a reconfiguration to another pole count has emptied buffers
\* that held a transition of the old dimension.
C8_Witness ==
  /\ last.kind = "config"
  /\ Len(last.pre) # Len(state)
  /\ last.clearsBefore = 0 /\ events >= 2

\* C9: every callback that detects termination submits a batch, and the batch
\* has at least one transition.
C9_BatchNonEmpty ==
  EpisodeEnded => last.dispatched /\ Len(last.batch.rewards) >= 1

\* C9 witness: termination detected by the first callback of an episode.
C9_Witness == EpisodeEnded /\ last.nTicks = 1 /\ last.dispatched

(***************************************************************************)
(* Reconfiguration with a pole count the page does not offer               *)
(* (specification SpecCfg)                                                 *)
(***************************************************************************)
\* The pole counts requested: the three options of the page and 0.  parseInt
\* and the constructor are given the number as it is, neither tests it.
RequestedCounts == PoleCounts \cup {0}

ApplyRequestedConfig == \E n \in RequestedCounts : ApplyConfigWith(n)

NextCfg == Tick \/ ApplyRequestedConfig \/ Microtask

SpecCfg == Init /\ [][NextCfg]_vars

\* C7 as claimed: a requested pole count below 1 is rejected before any
\* simulator state, agent or buffer is constructed or replaced.
C7_BadCountRejected ==
  (last.kind = "config" /\ last.requested < 1) =>
    /\ state = last.pre
    /\ agent.id = last.agent
    /\ clears = last.clearsBefore
    /\ numPoles >= 1

\* C7: the state in which the claim fails: after a request for 0 poles the
\* simulator has a two-component state, a new agent is installed and a
\* buffered transition is gone.
C7_ZeroPolesInstalled ==
  /\ last.kind = "config" /\ last.requested = 0
  /\ numPoles = 0 /\ Len(state) = 2 /\ obs_dim = 2
  /\ agent.id = last.agent + 1
  /\ Len(last.pre) = 2 + 2 * defaultPoles
  /\ events = 2 /\ AllBuffersEmpty

(***************************************************************************)
(* isTerminal at the cart bound (specification SpecTerm)                   *)
(***************************************************************************)
\* Cart positions are given in units of 1 / (FINE * FRAC), finer than the
\* float32 grid, so that 2.4 itself can be written down.
FINE == 10
MaxOffset == 30              \* positions tried: within MaxOffset fine units of the bound

\* simulator.state[0] = x for the JavaScript number x = xFine / (FINE * FRAC):
\* the Float32Array keeps the nearest float32, ties to even.
StoreFloat32(xFine) ==
  LET m == Abs(xFine)
      q == m \div FINE
      r == m % FINE
      up == (2 * r > FINE) \/ (2 * r = FINE /\ q % 2 = 1)
  IN  ToFloat32(Sign(xFine) * (IF up THEN q + 1 ELSE q))

\* 2.4 in fine units, and the positions tried around it on both sides.
xThresholdFine == (xThresholdTenths * FINE * FRAC) \div 10
CartPositions ==
  { sgn * (xThresholdFine + k) : sgn \in {-1, 1}, k \in (-MaxOffset)..MaxOffset }

\* A simulator of n poles, all upright and at rest, with the cart at x.
uprightAt(n, xFine) == Vec([newState(n) EXCEPT ![1] = StoreFloat32(xFine)])

InitTerm ==
  /\ Loaded(initSimulation(defaultPoles, [i \in 1..defaultPoles |-> <<0, 0>>],
                           [id |-> 0, obs_dim |-> 0], noBatch))
  /\ \E n \in PoleCounts : \E x \in CartPositions :
       probe = [kind |-> "cart", numPoles |-> n, xFine |-> x,
                stored |-> uprightAt(n, x), terminal |-> FALSE]

\* simulator.isTerminal() on the state prepared.
CallIsTerminal ==
  /\ probe.kind = "cart"
  /\ probe' = [probe EXCEPT !.kind = "isTerminal",
                            !.terminal = isTerminal(probe.stored, probe.numPoles)]
  /\ UNCHANGED pageVars

NextTerm == CallIsTerminal

SpecTerm == InitTerm /\ [][NextTerm]_vars

\* C5 as claimed: with all poles upright isTerminal() is false when |x| is
\* exactly 2.4 and true when |x| > 2.4.
C5_StrictCartBound ==
  probe.kind = "isTerminal" =>
    /\ Abs(probe.xFine) = xThresholdFine => ~probe.terminal
    /\ Abs(probe.xFine) > xThresholdFine => probe.terminal

\* C5: the state in which the claim fails: the cart put at exactly 2.4, held
\* by the Float32Array as a larger number, is terminal.
C5_BoundIsTerminal ==
  /\ probe.kind = "isTerminal"
  /\ probe.xFine = xThresholdFine
  /\ probe.stored[1] * FINE > xThresholdFine
  /\ probe.terminal

(***************************************************************************)
(* computeGAE on its own (specification SpecGAE)                           *)
(***************************************************************************)
MaxT == 3                    \* longest rewards/values/dones tried
GaeRewards == {0, 1}
GaeValues == {0, FRAC \div 2, -FRAC}
GaeDones == {0, 1}

SeqsOf(S, n) == { Vec(f) : f \in [1..n -> S] }

InitGAE ==
  /\ Loaded(initSimulation(defaultPoles, [i \in 1..defaultPoles |-> <<0, 0>>],
                           [id |-> 0, obs_dim |-> 0], noBatch))
  /\ \E n \in 0..MaxT :
       \E r \in SeqsOf(GaeRewards, n) : \E v \in SeqsOf(GaeValues, n) :
       \E d \in SeqsOf(GaeDones, n) :
         probe = [kind |-> "gaeInput", rewards |-> r, values |-> v, dones |-> d,
                  gae |-> noGae]

\* agent.computeGAE(rewards, values, dones) on the input prepared.
CallComputeGAE ==
  /\ probe.kind = "gaeInput"
  /\ probe' = [probe EXCEPT !.kind = "gae",
                            !.gae = computeGAE(probe.rewards, probe.values, probe.dones)]
  /\ UNCHANGED pageVars

NextGAE == CallComputeGAE

SpecGAE == InitGAE /\ [][NextGAE]_vars

\* Equal up to the rounding of the fixed-point products and of Float32Array.from
\* (two grid units, 2^-21).
Near(a, b) == Abs(a - b) <= 2

\* The right-hand side of the recursion for index t, read off the result adv.
GaeStep(rewards, values, dones, adv, t) ==
  LET T         == Len(rewards)
      nonTerm   == IF dones[t] = 1 THEN 0 ELSE 1
      nextValue == IF t = T THEN 0 ELSE values[t + 1]
      nextAdv   == IF t = T THEN 0 ELSE adv[t + 1]
      delta     == rewards[t] * FRAC
                   + nonTerm * FScale(nextValue, gammaPercent, 100) - values[t]
  IN  delta + nonTerm * FScale(nextAdv, gammaPercent * lamPercent, 100 * 100)

\* C10: computeGAE returns the raw recursion
\*   advantage[t] = delta_t + gamma * lam * nonTerm_t * advantage[t+1],
\*   delta_t = rewards[t] + gamma * nextValue_t * nonTerm_t - values[t],
\* with advantage[T] = 0 and nextValue_{T-1} = 0, and returns[t] =
\* advantage[t] + values[t]; for rewards [1,1,1], values [0,0,0], dones
\* [0,0,1] both are [2.82504025, 1.9405, 1].
C10_GaeRecursion ==
  probe.kind = "gae" =>
    LET adv == probe.gae.advantages
        ret == probe.gae.returns
        T   == Len(probe.rewards)
    IN  /\ Len(adv) = T /\ Len(ret) = T
        /\ \A t \in 1..T :
             /\ Near(adv[t], GaeStep(probe.rewards, probe.values, probe.dones, adv, t))
             /\ Near(ret[t], adv[t] + probe.values[t])
        /\ (probe.rewards = <<1, 1, 1>> /\ probe.values = <<0, 0, 0>>
            /\ probe.dones = <<0, 0, 1>>) =>
             /\ Near(adv[1], 11849078)                      \* 2.82504025 * 2^22
             /\ Near(adv[2], FScale(FRAC, 19405, 10000))    \* 1.9405
             /\ adv[3] = FRAC
             /\ ret = adv

\* C10 witness: the worked example has been computed.
C10_Witness ==
  /\ probe.kind = "gae"
  /\ probe.rewards = <<1, 1, 1>> /\ probe.values = <<0, 0, 0>>
  /\ probe.dones = <<0, 0, 1>>
  /\ probe.gae.advantages[1] > probe.gae.advantages[2]
  /\ probe.gae.advantages[2] > probe.gae.advantages[3]

(***************************************************************************)
(* The minibatches of PPOAgent.update (specification SpecBatches)          *)
(***************************************************************************)
\* indices.slice(i, j): the elements at positions i .. j-1 (from 0), as far as
\* they exist.
slice(indices, i, j) == SubSeq(indices, i + 1, Min(j, Len(indices)))

\* Mutant of batchIndices: the indices are shuffled again (here rotated by
\* one) in every epoch after the first.
batchIndices_reshuffled(indices, batchSize, epoch, i) ==
  IF epoch = 0 \/ indices = <<>> THEN slice(indices, i, i + batchSize)
  ELSE slice(Tail(indices) \o <<Head(indices)>>, i, i + batchSize)

\* const batchIndices = indices.slice(i, i + batchSize), for the loop
\* variables epoch and i: indices is computed once, before the loops.
batchIndices(indices, batchSize, epoch, i) == slice(indices, i, i + batchSize)

MaxDataset == 4              \* longest episode whose update is followed
MaxBatchSize == 3            \* batch sizes tried besides the default
MaxEpochs == 2               \* epochs tried besides the default

\* tf.util.createShuffledIndices(n): some permutation of 0 .. n-1.
createShuffledIndices(n) ==
  { Vec(f) : f \in { g \in [1..n -> 0..(n - 1)] :
                       \A a, b \in 1..n : a # b => g[a] # g[b] } }

\* A call of update(..., epochs, batchSize) on datasetSize transitions, before
\* it is made.  Once made, pc tells where it is suspended ("awaitActor",
\* "awaitCritic") or that it has returned ("done"), epoch and i are the loop
\* variables, minimized counts the optimizer steps, and passes holds, epoch
\* by epoch, the batchIndices made so far.
InitBatches ==
  /\ Loaded(initSimulation(defaultPoles, [i \in 1..defaultPoles |-> <<0, 0>>],
                           [id |-> 0, obs_dim |-> 0], noBatch))
  /\ \E n \in 0..MaxDataset : \E indices \in createShuffledIndices(n) :
     \E epochs \in (1..MaxEpochs) \cup {epochsDefault} :
     \E batchSize \in (1..MaxBatchSize) \cup {batchSizeDefault} :
       probe = [kind |-> "updateInput", datasetSize |-> n, indices |-> indices,
                epochs |-> epochs, batchSize |-> batchSize, pc |-> "none",
                epoch |-> 0, i |-> 0, minimized |-> 0, passes |-> <<>>]

\* The top of the minibatch iteration for epoch and i (396-406): batchIndices
\* is sliced, actorOptimizer.minimize is called and update awaits.
minibatchTop(q, epoch, i) ==
  LET made == batchIndices(q.indices, q.batchSize, epoch, i)
  IN  [q EXCEPT !.kind = "update", !.pc = "awaitActor", !.epoch = epoch, !.i = i,
                !.minimized = @ + 1,
                !.passes = IF i = 0 THEN Append(@, <<made>>)
                           ELSE [@ EXCEPT ![epoch + 1] = Append(@, made)]]

\* The return of update: an epoch whose inner loop never ran has no
\* minibatches.
updateReturns(q) ==
  [q EXCEPT !.kind = "updated", !.pc = "done", !.epoch = q.epochs,
            !.passes = IF q.datasetSize = 0 THEN Vec([e \in 1..q.epochs |-> <<>>])
                       ELSE @]

\* agent.update(...) as far as it runs inside its caller: to the first await,
\* or to its end when there is nothing to slice.
CallUpdate ==
  /\ probe.kind = "updateInput"
  /\ probe' = IF probe.datasetSize > 0 THEN minibatchTop(probe, 0, 0)
              ELSE updateReturns(probe)
  /\ UNCHANGED pageVars

\* One microtask of the call: after the first await criticOptimizer.minimize
\* and the second await (407-410); after the second the disposes and the
\* loop heads (411-416, 394-395), then the next minibatch or the return.
UpdateMicrotask ==
  /\ probe.kind = "update"
  /\ probe' = IF probe.pc = "awaitActor"
              THEN [probe EXCEPT !.pc = "awaitCritic", !.minimized = @ + 1]
              ELSE IF probe.i + probe.batchSize < probe.datasetSize
              THEN minibatchTop(probe, probe.epoch, probe.i + probe.batchSize)
              ELSE IF probe.epoch + 1 < probe.epochs
              THEN minibatchTop(probe, probe.epoch + 1, 0)
              ELSE updateReturns(probe)
  /\ UNCHANGED pageVars

NextBatches == CallUpdate \/ UpdateMicrotask

SpecBatches == InitBatches /\ [][NextBatches]_vars

RECURSIVE Concat(_)
Concat(sqs) == IF sqs = <<>> THEN <<>> ELSE Head(sqs) \o Concat(Tail(sqs))
Occurrences(sq, x) == Cardinality({k \in 1..Len(sq) : sq[k] = x})
Members(sq) == {sq[k] : k \in 1..Len(sq)}
CeilDiv(a, b) == (a + b - 1) \div b
UpdateCalled == probe.kind \in {"update", "updated"}

\* C11: update slices one permutation of 0..T-1, computed before the epoch
\* loop, into ceil(T/batchSize) consecutive minibatches in each of the epochs
\* passes: in every pass each index is in exactly one minibatch, every
\* minibatch but possibly the last has batchSize indices, and minibatch k has
\* the same members in every pass.  While the call is suspended at an await
\* the minibatches made so far are the first ones of that sequence, two
\* optimizer steps for each but the one in hand; the passes are complete
\* once the call has returned.
C11_FixedPermutationSlices ==
  UpdateCalled =>
    /\ probe.kind = "updated" =>
         /\ Len(probe.passes) = probe.epochs
         /\ probe.minimized
              = 2 * probe.epochs * CeilDiv(probe.datasetSize, probe.batchSize)
         /\ \A e \in 1..Len(probe.passes) :
              /\ Len(probe.passes[e]) = CeilDiv(probe.datasetSize, probe.batchSize)
              /\ Concat(probe.passes[e]) = probe.indices
    /\ probe.kind = "update" =>
         /\ Len(probe.passes) = probe.epoch + 1
         /\ probe.epoch < probe.epochs
         /\ Len(probe.passes[probe.epoch + 1]) = probe.i \div probe.batchSize + 1
         /\ probe.minimized
              = 2 * (probe.epoch * CeilDiv(probe.datasetSize, probe.batchSize)
                     + probe.i \div probe.batchSize)
                + (IF probe.pc = "awaitActor" THEN 1 ELSE 2)
         /\ \A e \in 1..probe.epoch :
              Len(probe.passes[e]) = CeilDiv(probe.datasetSize, probe.batchSize)
    /\ \A e \in 1..Len(probe.passes) :
         LET pass == probe.passes[e]
             flat == Concat(pass)
         IN  /\ flat = SubSeq(probe.indices, 1, Len(flat))
             /\ \A x \in 0..(probe.datasetSize - 1) : Occurrences(flat, x) <= 1
             /\ \A k \in 1..(Len(pass) - 1) : Len(pass[k]) = probe.batchSize
             /\ \A k \in 1..Len(pass) :
                  /\ Len(pass[k]) >= 1 /\ Len(pass[k]) <= probe.batchSize
                  /\ Members(pass[k]) = Members(probe.passes[1][k])

\* C11 witness: the call has returned after two passes over four shuffled
\* transitions in minibatches of three: a full minibatch and a shorter last
\* one, in an order that is not the buffer's, after eight optimizer steps.
C11_Witness ==
  /\ probe.kind = "updated"
  /\ probe.datasetSize = 4 /\ probe.batchSize = 3 /\ probe.epochs = 2
  /\ probe.indices # <<0, 1, 2, 3>>
  /\ Len(probe.passes[2]) = 2 /\ Len(probe.passes[2][2]) = 1
  /\ probe.minimized = 8

(***************************************************************************)
(* Updates and the event loop (specification SpecAsync): optimizer steps   *)
(* may throw; fewer kinds of callback are followed.                        *)
(***************************************************************************)
AsyncTickInputs ==
  { [out |-> outIdle, elapsed |-> 19],
    [out |-> outPush, elapsed |-> 400] }

TickThrowing == TickFrom(AsyncTickInputs, MinimizeOutcomes)
MicrotaskThrowing == MicrotaskWith(MinimizeOutcomes)

NextAsync == TickThrowing \/ ApplyConfig \/ MicrotaskThrowing

SpecAsync == Init /\ [][NextAsync]_vars

BetweenOptimizerSteps ==
  \E k \in 1..Len(updates) : updates[k].pc \in {"awaitActor", "awaitCritic"}

\* C12 as claimed: the callbacks do not wait for an update: while an update
\* is between two optimizer steps a callback (its getAction and its pushes)
\* can run.
C12_TickRunsMidUpdate ==
  (BetweenOptimizerSteps /\ events < MaxEvents) => ENABLED TickThrowing

\* C12 amended: the callback that ends an episode returns with the update
\* suspended at its first await (or already rejected), never finished; the
\* rest of the update runs before any later callback or click starts, so no
\* callback starts, and no action is selected, while an update is unsettled,
\* and an unsettled update is the one the latest callback dispatched.
C12_UpdateRunsBetweenTicks ==
  /\ last.pendingAtStart = 0
  /\ (IsTick /\ last.dispatched) => last.atReturn \in {"awaitActor", "rejected"}
  /\ updates # <<>> =>
       /\ IsTick /\ last.dispatched /\ last.atReturn = "awaitActor"
       /\ Len(updates) = 1
       /\ updates[1].datasetSize = last.nTicks
       /\ updates[1].steps >= 1

\* C12 witness: a callback started after an earlier episode's update was
\* fulfilled, and has itself dispatched an update that is now suspended after
\* its first optimizer step.
C12_Witness ==
  /\ IsTick /\ last.dispatched /\ last.pendingAtStart = 0
  /\ updateLog.fulfilled >= 1
  /\ Len(updates) = 1 /\ updates[1].pc = "awaitActor" /\ updates[1].steps = 1

\* C13 as claimed: every tensor made for an update is disposed exactly once,
\* after its last use, on every path: once no update is unsettled, none of
\* these tensors is live, also when an optimizer step threw.
C13_TensorsReleased ==
  /\ ~tfMemory.misuse
  /\ updates = <<>> => tfMemory.live = 0

\* C13: the state in which the claim fails: an optimizer step threw, the
\* update is rejected and its eleven tensors stay live.
C13_LeakAfterThrow ==
  /\ updates = <<>>
  /\ updateLog.rejected = 1 /\ updateLog.fulfilled = 0
  /\ tfMemory.live = episodeTensors + minibatchTensors

\* C17: at most one update is unsettled at any time: agent.update is never
\* called while an earlier call has not settled, so the optimizer steps of
\* two updates do not interleave.
C17_OneUpdateAtATime ==
  /\ Len(updates) <= 1
  /\ updateLog.started = updateLog.fulfilled + updateLog.rejected + Len(updates)
  /\ (IsTick /\ last.dispatched) => last.pendingAtStart = 0

\* C17 witness: a second update is between optimizer steps after the first
\* was settled.
C17_Witness ==
  /\ updateLog.started = 2
  /\ Len(updates) = 1 /\ updates[1].pc = "awaitCritic" /\ updates[1].epoch >= 1

(***************************************************************************)
(* rk4Step at the upright equilibrium (specification SpecEq)               *)
(***************************************************************************)
MaxEqSteps == 3              \* consecutive rk4Step calls followed
MaxEqCart == 40              \* cart positions tried: k / 8 for |k| <= MaxEqCart

EqCartPositions == { k * (FRAC \div 8) : k \in (-MaxEqCart)..MaxEqCart }

InitEq ==
  /\ Loaded(initSimulation(defaultPoles, [i \in 1..defaultPoles |-> <<0, 0>>],
                           [id |-> 0, obs_dim |-> 0], noBatch))
  /\ \E x \in EqCartPositions :
       probe = [kind |-> "equilibrium", steps |-> 0,
                initial |-> Vec([newState(1) EXCEPT ![1] = ToFloat32(x)]),
                state |-> Vec([newState(1) EXCEPT ![1] = ToFloat32(x)]),
                deriv |-> newState(1)]

\* simulator.rk4Step(0) on a one-pole simulator; deriv is what
\* computeDerivatives gives for the state before the step.
CallRk4Step ==
  /\ probe.kind = "equilibrium"
  /\ probe.steps < MaxEqSteps
  /\ probe' = [probe EXCEPT !.steps = @ + 1,
                            !.deriv = computeDerivatives(probe.state, 1, 0),
                            !.state = rk4Step(probe.state, 1, 0)]
  /\ UNCHANGED pageVars

NextEq == CallRk4Step

SpecEq == InitEq /\ [][NextEq]_vars

\* C14: for one pole, force 0, cart velocity 0, pole angle 0 and angular
\* velocity 0 every derivative component is 0 and rk4Step leaves the state
\* unchanged, for any number of consecutive steps.
C14_EquilibriumIsFixed ==
  probe.kind = "equilibrium" =>
    /\ probe.state = probe.initial
    /\ \A k \in 1..Len(probe.deriv) : probe.deriv[k] = 0

\* C14 witness: three steps were made with the cart away from the centre.
C14_Witness ==
  /\ probe.kind = "equilibrium"
  /\ probe.steps = 3
  /\ probe.initial[1] = 5 * (FRAC \div 8)

(***************************************************************************)
(* Elapsed time and RK4 steps (specification Spec)                         *)
(***************************************************************************)
\* C15: lastSimTime is set to the current time in every callback, whatever
\* the number of steps, so the remainder below 20 ms is never carried over:
\* the steps requested over any sequence of callbacks are the sum of
\* floor(e_i / 20) over the times e_i between them, which is at most
\* floor((e_1 + ... + e_k) / 20).
C15_RemainderDropped ==
  /\ lastSimTime = clock
  /\ simLog.requested = simLog.gaps
  /\ simLog.requested <= clock \div dtMillis
  /\ simLog.performed <= simLog.requested

\* C15 witness: two callbacks 19 ms apart have requested no step although
\* 38 ms have passed.
C15_Witness ==
  /\ IsTick /\ last.elapsed = 19
  /\ clock = 38
  /\ simLog.requested = 0
  /\ clock \div dtMillis = 1

(***************************************************************************)
(* The critic loss of computeLosses (specification SpecLoss)               *)
(*                                                                         *)
(* retBatch is tf.gather of the one-dimensional retTensor: shape [B].     *)
(* values is this.critic.apply(obsBatch), the output of a dense layer of   *)
(* one unit: shape [B, 1], here a sequence of B one-element rows.          *)
(* Numbers are small integers; a mean is kept as the pair [sum, count].    *)
(***************************************************************************)
MaxLossBatch == 3            \* largest minibatch tried
LossNumbers == {-1, 0, 2}

\* tf.sub(a, b) for a of shape [B] and b of shape [B, 1]: the operands are
\* broadcast to [B, B]; row i, column j holds a[j] - b[i][1].
tfSubVectorColumn(a, b) ==
  Vec([i \in 1..Len(b) |-> Vec([j \in 1..Len(a) |-> a[j] - b[i][1]])])

\* tf.square, element by element, of a matrix.
tfSquare(m) == Vec([i \in 1..Len(m) |-> Vec([j \in 1..Len(m[i]) |-> m[i][j] * m[i][j]])])

\* tf.mean of a matrix over all its elements, as [sum, count].
tfMean(m) ==
  [sum   |-> SumSeq(Vec([i \in 1..Len(m) |-> SumSeq(m[i])])),
   count |-> SumSeq(Vec([i \in 1..Len(m) |-> Len(m[i])]))]

\* const criticLoss = tf.mean(tf.square(tf.sub(retBatch, values)));
criticLoss(retBatch, values) == tfMean(tfSquare(tfSubVectorColumn(retBatch, values)))

InitLoss ==
  /\ Loaded(initSimulation(defaultPoles, [i \in 1..defaultPoles |-> <<0, 0>>],
                           [id |-> 0, obs_dim |-> 0], noBatch))
  /\ \E B \in 1..MaxLossBatch :
     \E ret \in SeqsOf(LossNumbers, B) : \E val \in SeqsOf(LossNumbers, B) :
       probe = [kind |-> "lossInput", retBatch |-> ret,
                values |-> Vec([i \in 1..B |-> <<val[i]>>]),
                criticLoss |-> [sum |-> 0, count |-> 0]]

\* The critic part of computeLosses on the minibatch prepared.
CallComputeLosses ==
  /\ probe.kind = "lossInput"
  /\ probe' = [probe EXCEPT !.kind = "loss",
                            !.criticLoss = criticLoss(probe.retBatch, probe.values)]
  /\ UNCHANGED pageVars

NextLoss == CallComputeLosses

SpecLoss == InitLoss /\ [][NextLoss]_vars

\* The sum over the transitions i of (return_i - valuePred_i)^2.
PairedSquares(ret, val) ==
  SumSeq(Vec([i \in 1..Len(ret) |-> (ret[i] - val[i][1]) * (ret[i] - val[i][1])]))

\* C16 as claimed: the critic loss of a minibatch of B transitions is the mean
\* over the transitions i of (return_i - valuePred_i)^2, each return paired
\* with the prediction for the same transition.
C16_CriticLossIsPairedMean ==
  probe.kind = "loss" =>
    probe.criticLoss.sum * Len(probe.retBatch)
      = PairedSquares(probe.retBatch, probe.values) * probe.criticLoss.count

\* C16: the state in which the claim fails: for returns [0, 2] and
\* predictions [[0], [2]] every return equals its prediction, and the loss
\* is 8 / 4 = 2, the mean over all four pairs.
C16_CrossPairsCounted ==
  /\ probe.kind = "loss"
  /\ probe.retBatch = <<0, 2>> /\ probe.values = <<<<0>>, <<2>>>>
  /\ PairedSquares(probe.retBatch, probe.values) = 0
  /\ probe.criticLoss = [sum |-> 8, count |-> 4]

(***************************************************************************)
(* The state at the start of a callback (specification Spec)               *)
(***************************************************************************)
\* C18: every callback starts with the simulator in a non-terminal state:
\* construction and reset() give cart position and velocity 0 and angles and
\* angular velocities within [-0.025, 0.025], where isTerminal() is false; a
\* callback that leaves the simulator terminal resets it before it returns;
\* and update() makes no RK4 step after the first whose result is terminal.
C18_TickStartsNonTerminal ==
  /\ ~isTerminal(state, numPoles)
  /\ IsTick => ~isTerminal(last.pre, numPoles)
  /\ (last.kind \in {"init", "config"} \/ EpisodeEnded) => IsResetState(state)
  /\ IsTick =>
       /\ last.done = (IF isTerminal(last.post, numPoles) THEN 1 ELSE 0)
       /\ last.done = 0 => state = last.post
       /\ last.firstTerminal # 0 => last.steps = last.firstTerminal
       /\ last.firstTerminal = 0 /\ last.steps > 0 => last.done = 0

\* C18 witness: a callback whose update stopped at a terminal state in step
\* 17 of 20 has reset the simulator to a state with the largest jitter.
C18_Witness ==
  /\ EpisodeEnded
  /\ last.firstTerminal = 17 /\ last.elapsed = 400
  /\ isTerminal(last.post, numPoles)
  /\ state[3] = jitterHi

(***************************************************************************)
(* The fixed-topology demo (src/script.js)                                 *)
(*                                                                         *)
(* Numbers are fixed point as above.  gravity, forceMag and                *)
(* simulationSpeed are kept in tenths, as the sliders deliver them.        *)
(* Rendering (trajectory, renderScene, updateMetrics) and the recording    *)
(* button do not touch the simulation or the training data and are left    *)
(* out; trainActorCriticModel is followed up to the batch it reads.        *)
(***************************************************************************)
baseTauMillis == 20          \* baseTau = 0.02 s
scaleFactor == 100           \* metres to pixels
epsilonDecayPermille == 995  \* epsilonDecay = 0.995
minEpsilonPercent == 10      \* minEpsilon = 0.1

\* The bits of r / b after the binary point, for 0 <= r < b; w is the weight
\* of the next bit.
RECURSIVE FracDiv(_, _, _)
FracDiv(r, b, w) ==
  IF w = 0 THEN 0
  ELSE IF 2 * r >= b THEN w + FracDiv(2 * r - b, b, w \div 2)
       ELSE FracDiv(2 * r, b, w \div 2)

\* IEEE-754 division of a by a finite b, truncated to the resolution.
FDiv(a, b) ==
  IF IsNaN(a) \/ IsNaN(b) \/ IsInf(b) THEN NaN
  ELSE IF b = 0 THEN (IF a = 0 THEN NaN ELSE IF a > 0 THEN PosInf ELSE NegInf)
  ELSE IF IsInf(a) THEN (IF Sign(a) * Sign(b) > 0 THEN PosInf ELSE NegInf)
  ELSE Sign(a) * Sign(b)
       * ((Abs(a) \div Abs(b)) * FRAC + FracDiv(Abs(a) % Abs(b), Abs(b), FRAC \div 2))

FLt(a, b) == FGt(b, a)

\* a + dt * b with dt = baseTau * simulationSpeed.
Euler(a, b, speedTenths) == FAdd(a, FScale(b, baseTauMillis * speedTenths, 10000))

\* theta = 0.05 and its like.
startAngle == FScale(FRAC, 5, 100)
minEpsilon == FScale(FRAC, minEpsilonPercent, 100)

\* simulateSingleStep on s = [x, x_dot, theta, theta_dot]; action is -1 or 1,
\* p = [speed, force, gravity] the slider settings at the time.
\* massPole * poleLength = 0.05, totalMassSingle = 1.1.
simulateSingleStep(s, action, p) ==
  LET force     == FScale(action * FRAC, p.force, 10)
      costheta  == Cos(s[3])
      sintheta  == Sin(s[3])
      temp      == FScale(FAdd(force, FMul(FScale(FMul(s[4], s[4]), 5, 100), sintheta)),
                          10, 11)
      theta_acc == FDiv(FSub(FScale(sintheta, p.gravity, 10), FMul(costheta, temp)),
                        FScale(FSub(FScale(FRAC, 4, 3),
                                    FScale(FMul(costheta, costheta), 1, 11)), 1, 2))
      x_acc     == FSub(temp, FScale(FMul(theta_acc, costheta), 5, 110))
  IN  << Euler(s[1], s[2], p.speed), Euler(s[2], x_acc, p.speed),
         Euler(s[3], s[4], p.speed), Euler(s[4], theta_acc, p.speed) >>

\* simulateDoubleStep on s = [x, x_dot, theta1, theta1_dot, theta2, theta2_dot].
\* m_eff = 0.2, m_eff * poleLength = 0.1, massCart + m_eff = 1.2.
simulateDoubleStep(s, action, p) ==
  LET force      == FScale(action * FRAC, p.force, 10)
      costheta1  == Cos(s[3])
      sintheta1  == Sin(s[3])
      temp       == FScale(FAdd(force, FMul(FScale(FMul(s[4], s[4]), 1, 10), sintheta1)),
                           10, 12)
      theta1_acc == FDiv(FSub(FScale(sintheta1, p.gravity, 10), FMul(costheta1, temp)),
                         FScale(FSub(FScale(FRAC, 4, 3),
                                     FScale(FMul(costheta1, costheta1), 2, 12)), 1, 2))
      x_acc      == FSub(temp, FScale(FMul(theta1_acc, costheta1), 1, 12))
      theta2_acc == FSub(FScale(Sin(s[5]), p.gravity, 10), FScale(s[6], 2, 10))
  IN  << Euler(s[1], s[2], p.speed), Euler(s[2], x_acc, p.speed),
         Euler(s[3], s[4], p.speed), Euler(s[4], theta1_acc, p.speed),
         Euler(s[5], s[6], p.speed), Euler(s[6], theta2_acc, p.speed) >>

simulate(type, s, action, p) ==
  IF type = "1-pole" THEN simulateSingleStep(s, action, p)
                     ELSE simulateDoubleStep(s, action, p)

\* currentState of step(): the variables of the simulation in use.
currentState(d) ==
  IF d.simulationType = "1-pole" THEN <<d.x, d.x_dot, d.theta, d.theta_dot>>
  ELSE <<d.x, d.x_dot, d.theta1, d.theta1_dot, d.theta2, d.theta2_dot>>

\* The variables of the simulation in use after they have become s.
moved(d, s) ==
  IF d.simulationType = "1-pole"
  THEN [d EXCEPT !.x = s[1], !.x_dot = s[2], !.theta = s[3], !.theta_dot = s[4]]
  ELSE [d EXCEPT !.x = s[1], !.x_dot = s[2], !.theta1 = s[3], !.theta1_dot = s[4],
                 !.theta2 = s[5], !.theta2_dot = s[6]]

\* The reward step() pushes: 1 while the pole (the chain) is within pi / 6.
rewardOf(d) ==
  IF d.simulationType = "1-pole"
  THEN (IF FLt(Abs(d.theta), PI_FIX \div 6) THEN 1 ELSE 0)
  ELSE (IF FLt(Abs(d.theta1), PI_FIX \div 6)
           /\ FLt(Abs(FAdd(d.theta1, d.theta2)), PI_FIX \div 6) THEN 1 ELSE 0)

checkFailure(d) ==
  LET outOfBounds == FGt(Abs(d.x), FScale(FRAC, d.canvasWidth, 2 * scaleFactor))
  IN  IF d.simulationType = "1-pole"
      THEN FGt(Abs(d.theta), PI_FIX \div 2) \/ outOfBounds
      ELSE \/ FGt(Abs(d.theta1), PI_FIX \div 2)
           \/ FGt(Abs(FAdd(d.theta1, d.theta2)), PI_FIX \div 2)
           \/ outOfBounds

resetState(type) ==
  IF type = "1-pole" THEN <<0, 0, startAngle, 0>>
                     ELSE <<0, 0, startAngle, 0, startAngle, 0>>

resetSimulation(d) == moved(d, resetState(d.simulationType))

\* What the claims about a frame compare before and after.
Watched(d) ==
  << d.x, d.x_dot, d.theta, d.theta_dot, d.theta1, d.theta1_dot, d.theta2,
     d.theta2_dot, d.states, d.actions, d.rewards, d.episodeReward, d.episodeCount,
     d.epsilon >>

noTraining == [states |-> <<>>, actions |-> <<>>, rewards |-> <<>>,
               settings |-> <<>>, simulationType |-> "none"]

\* The globals after the script has run to its end (437-439); width is
\* canvas.width.  settings, batch, last, frames and clicks are history:
\* settings[k] are the slider settings of the step that recorded states[k],
\* batch is what the latest call of trainActorCriticModel read.
scriptLoaded(width) ==
  [page |-> "script", canvasWidth |-> width,
   simulationType |-> "1-pole", simRunning |-> TRUE,
   gravity |-> 98, forceMag |-> 100, simulationSpeed |-> 10,
   x |-> 0, x_dot |-> 0, theta |-> startAngle, theta_dot |-> 0,
   theta1 |-> startAngle, theta1_dot |-> 0, theta2 |-> startAngle, theta2_dot |-> 0,
   states |-> <<>>, actions |-> <<>>, rewards |-> <<>>,
   episodeReward |-> 0, episodeCount |-> 0, epsilon |-> FRAC,
   settings |-> <<>>, batch |-> noTraining,
   last |-> [kind |-> "load", pre |-> <<>>], frames |-> 0, clicks |-> 0]

\* The three pushes of step() and episodeReward += rewards[rewards.length - 1];
\* s is currentState, taken before the step, d the globals after it.
recordStep(d, s, action, p) ==
  [d EXCEPT !.states = Append(@, s),
            !.actions = Append(@, IF action = -1 THEN 0 ELSE 1),
            !.rewards = Append(@, rewardOf(d)),
            !.episodeReward = @ + rewardOf(d),
            !.settings = Append(@, p)]

\* trainActorCriticModel(): the tensors are built from states, actions and
\* rewards as they are at the call; the weights it changes are not followed.
trainActorCriticModel(d) ==
  [d EXCEPT !.batch = [states |-> d.states, actions |-> d.actions,
                       rewards |-> d.rewards, settings |-> d.settings,
                       simulationType |-> d.simulationType]]

\* The branch of step() taken when checkFailure() is true.
endEpisode(d) ==
  LET trained == trainActorCriticModel([d EXCEPT !.episodeCount = @ + 1])
      decayed == FScale(d.epsilon, epsilonDecayPermille, 1000)
  IN  [resetSimulation(trained) EXCEPT
         !.epsilon = IF FGt(minEpsilon, decayed) THEN minEpsilon ELSE decayed,
         !.states = <<>>, !.actions = <<>>, !.rewards = <<>>, !.settings = <<>>,
         !.episodeReward = 0]

\* Mutant of running: the frame simulates whether or not the demo is paused.
running_always(d) == TRUE

\* if (simRunning)
running(d) == d.simRunning

\* step(): one animation frame; action is what chooseAction returns.  last
\* (history) tells what kind of frame it was and what it started from.
step(d, action) ==
  LET p     == [speed |-> d.simulationSpeed, force |-> d.forceMag,
                gravity |-> d.gravity]
      s     == currentState(d)
      d1    == recordStep(moved(d, simulate(d.simulationType, s, action, p)),
                          s, action, p)
      after == IF ~running(d) THEN d
               ELSE IF checkFailure(d1) THEN endEpisode(d1) ELSE d1
      kind  == IF ~d.simRunning THEN "paused"
               ELSE IF after.episodeCount > d.episodeCount THEN "failed" ELSE "ran"
  IN  [after EXCEPT !.last = [kind |-> kind, pre |-> Watched(d)]]

\* The click handlers and the change handler of the select.
toggleSim(d) == [d EXCEPT !.simRunning = ~@]

poleConfigChange(d, value) ==
  [resetSimulation([d EXCEPT !.simulationType = value]) EXCEPT
     !.states = <<>>, !.actions = <<>>, !.rewards = <<>>, !.settings = <<>>,
     !.episodeReward = 0]

(***************************************************************************)
(* The demo as a state machine (specification SpecDemo)                    *)
(***************************************************************************)
MaxFrames == 3               \* animation frames in a behaviour
MaxClicks == 2               \* clicks, slider inputs and select changes in a behaviour

\* canvas.width, the slider stops and the options of the select are set by
\* the page around the script; the widths are the default of a canvas
\* element and that of index.html, the slider stops the initial value and one
\* other, in tenths.
CanvasWidths == {300, 800}
SpeedStops == {10, 200}
ForceStops == {100, 200}
GravityStops == {98, 150}
PoleConfigs == {"1-pole", "2-pole"}

\* chooseAction: either action, whatever epsilon and the actor are.
chooseAction == {-1, 1}

InitDemo ==
  /\ LoadedIndex(initSimulation(defaultPoles, [i \in 1..defaultPoles |-> <<0, 0>>],
                                [id |-> 0, obs_dim |-> 0], noBatch))
  /\ probe = noProbe
  /\ \E width \in CanvasWidths : demo = scriptLoaded(width)

\* requestAnimationFrame(step)
Frame ==
  /\ demo.frames < MaxFrames
  /\ \E action \in chooseAction :
       demo' = [step(demo, action) EXCEPT !.frames = @ + 1]
  /\ UNCHANGED <<indexVars, probe>>

Clicked(d, kind) ==
  /\ demo.clicks < MaxClicks
  /\ demo' = [d EXCEPT !.clicks = @ + 1, !.last = [kind |-> kind, pre |-> Watched(demo)]]
  /\ UNCHANGED <<indexVars, probe>>

ToggleSimClick == Clicked(toggleSim(demo), "toggle")
ResetSimClick == Clicked(resetSimulation(demo), "reset")
PoleConfigChange == \E value \in PoleConfigs : Clicked(poleConfigChange(demo, value), "config")
ForceInput == \E v \in ForceStops : Clicked([demo EXCEPT !.forceMag = v], "force")
GravityInput == \E v \in GravityStops : Clicked([demo EXCEPT !.gravity = v], "gravity")
SpeedInput == \E v \in SpeedStops : Clicked([demo EXCEPT !.simulationSpeed = v], "speed")

NextDemo ==
  \/ Frame
  \/ ToggleSimClick
  \/ ResetSimClick
  \/ PoleConfigChange
  \/ ForceInput
  \/ GravityInput
  \/ SpeedInput

SpecDemo == InitDemo /\ [][NextDemo]_vars

(***************************************************************************)
(* Properties of the demo (specification SpecDemo)                         *)
(***************************************************************************)
\* The action chooseAction returned, from what step() pushed to actions.
actionOf(pushed) == IF pushed = 0 THEN -1 ELSE 1

Trained == demo.batch.simulationType # "none"

\* states[k + 1] of the batch is one simulation step after states[k].
FollowsOn(b, k) ==
  b.states[k + 1] = simulate(b.simulationType, b.states[k], actionOf(b.actions[k]),
                             b.settings[k])

\* C19: every batch passed to trainActorCriticModel is one contiguous
\* trajectory: its first state is a reset state and every later state is the
\* result of one simulation step applied to the state recorded before it with
\* the action recorded with that state, whatever frames, Reset clicks, pause
\* toggles and pole-configuration changes came before.
C19_BatchIsOneTrajectory ==
  Trained =>
    /\ demo.batch.states[1] = resetState(demo.batch.simulationType)
    /\ \A k \in 1..(Len(demo.batch.states) - 1) : FollowsOn(demo.batch, k)

\* A batch that starts over in the middle: a frame, a click on Reset, and the
\* frames up to the failure.
C19_ResetInsideBatch ==
  /\ Trained
  /\ demo.last.kind = "failed"
  /\ \E k \in 1..(Len(demo.batch.states) - 1) :
       /\ ~FollowsOn(demo.batch, k)
       /\ demo.batch.states[k + 1] = resetState(demo.batch.simulationType)

\* C20: between any two handlers states, actions and rewards have the same
\* length and episodeReward is the sum of rewards; a frame run while
\* simRunning is false leaves x, x_dot, the angles and their rates, the three
\* arrays, episodeReward, episodeCount and epsilon as they were; and after a
\* frame that detected failure the three arrays are empty, episodeReward is 0,
\* episodeCount is one more than before and epsilon is
\* max(minEpsilon, 0.995 * the epsilon before).
C20_FrameBookkeeping ==
  /\ Len(demo.states) = Len(demo.actions)
  /\ Len(demo.actions) = Len(demo.rewards)
  /\ demo.episodeReward = SumSeq(demo.rewards)
  /\ demo.last.kind = "paused" => Watched(demo) = demo.last.pre
  /\ demo.last.kind = "failed" =>
       /\ demo.states = <<>> /\ demo.actions = <<>> /\ demo.rewards = <<>>
       /\ demo.episodeReward = 0
       /\ demo.episodeCount = demo.last.pre[13] + 1
       /\ \E decayed \in {FScale(demo.last.pre[14], epsilonDecayPermille, 1000)} :
            demo.epsilon = IF decayed < minEpsilon THEN minEpsilon ELSE decayed

\* A frame has just detected the failure of the first episode, which had one
\* rewarded step recorded before that frame; epsilon has decayed.
C20_Witness ==
  /\ demo.last.kind = "failed"
  /\ Len(demo.last.pre[9]) = 1
  /\ demo.last.pre[12] >= 1
  /\ demo.episodeCount = 1
  /\ demo.epsilon < FRAC
====
